---------------------------- MODULE Spec2Model ----------------------------
(***************************************************************************)
(* In-market Audiences Bidding (mv_audience_bid_neg_modifier.js).          *)
(*                                                                         *)
(* main() loads the audience mapping, fetches the campaign and the ad      *)
(* group performance reports, makes the list of bid operations and then    *)
(* applies them one by one.  The ad platform (selectors, reports, the CSV  *)
(* source, the bid write) is the environment: its answers are the          *)
(* variables csv, cfg, campaigns, adGroups, campaignReport, adGroupReport, *)
(* chosen in Init and read by the actions.                                 *)
(*                                                                         *)
(* Text is a sequence of one-character strings wherever the code looks     *)
(* inside it (campaign names, report values); identifiers and CSV cells    *)
(* that are only compared for equality are plain strings.                  *)
(* Numbers are exact non-negative rationals plus NaN and Infinity; the     *)
(* rounding of IEEE doubles is not modelled.                               *)
(***************************************************************************)
EXTENDS Integers, Sequences, FiniteSets, TLC

(***************************************************************************)
(* Bounds of the model.                                                    *)
(***************************************************************************)
\* most audiences attached in the account, over all campaigns and ad groups
MaxAudiences == 2
\* most data rows of the mapping CSV
MaxRows == 3

(***************************************************************************)
(* Configuration constants of the script.                                  *)
(***************************************************************************)
MINIMUM_IMPRESSIONS == 50

CAMPAIGN_NAME_DOES_NOT_CONTAIN == << >>

CAMPAIGN_NAME_CONTAINS == << <<"_", "S", "e", "a", "r", "c", "h", "_">> >>

(***************************************************************************)
(* JavaScript numbers.                                                     *)
(***************************************************************************)
NaN == [k |-> "nan", n |-> 0, d |-> 0]

Infinity == [k |-> "inf", n |-> 0, d |-> 0]

RECURSIVE Gcd(_, _)
Gcd(a, b) == IF b = 0 THEN a ELSE Gcd(b, a % b)

\* the rational n/d, d > 0, in lowest terms
Num(n, d) == [k |-> "num", n |-> n \div Gcd(n, d), d |-> d \div Gcd(n, d)]

\* the operator / on non-negative numbers
NumDiv(a, b) ==
  IF a.k = "nan" \/ b.k = "nan" THEN NaN
  ELSE IF a.k = "inf" THEN (IF b.k = "inf" THEN NaN ELSE Infinity)
  ELSE IF b.k = "inf" THEN Num(0, 1)
  ELSE IF b.n = 0 THEN (IF a.n = 0 THEN NaN ELSE Infinity)
  ELSE Num(a.n * b.d, a.d * b.n)

(***************************************************************************)
(* JavaScript strings, as sequences of characters.                         *)
(***************************************************************************)
DigitChars == <<"0", "1", "2", "3", "4", "5", "6", "7", "8", "9">>

IsDigit(ch) == \E i \in 1..Len(DigitChars) : DigitChars[i] = ch

DigitVal(ch) == (CHOOSE i \in 1..Len(DigitChars) : DigitChars[i] = ch) - 1

RECURSIVE Pow10(_)
Pow10(e) == IF e = 0 THEN 1 ELSE 10 * Pow10(e - 1)

\* index of the last character of the run of digits of s that starts at i
\* (i - 1 when s has no digit at i)
RECURSIVE DigitRunEnd(_, _)
DigitRunEnd(s, i) ==
  IF i <= Len(s) /\ IsDigit(s[i]) THEN DigitRunEnd(s, i + 1) ELSE i - 1

\* value of the digits s[i..j] read as a decimal integer (0 when j < i)
RECURSIVE DigitsVal(_, _, _)
DigitsVal(s, i, j) ==
  IF j < i THEN 0 ELSE 10 * DigitsVal(s, i, j - 1) + DigitVal(s[j])

RECURSIVE SkipSpaces(_)
SkipSpaces(s) ==
  IF Len(s) > 0 /\ s[1] = " " THEN SkipSpaces(Tail(s)) ELSE s

IsPrefixOf(p, s) == Len(p) <= Len(s) /\ SubSeq(s, 1, Len(p)) = p

InfinityText == <<"I", "n", "f", "i", "n", "i", "t", "y">>

\* parseFloat on a string: leading blanks are skipped, then the longest
\* prefix of the form digits[.digits] or .digits is read (signs and exponents
\* do not occur in the texts of the model); anything else gives NaN
ParseFloatText(str) ==
  LET s == SkipSpaces(str)
      intEnd == DigitRunEnd(s, 1)
      hasDot == intEnd + 1 <= Len(s) /\ s[intEnd + 1] = "."
      fracEnd == IF hasDot THEN DigitRunEnd(s, intEnd + 2) ELSE intEnd
      fracLen == IF hasDot THEN fracEnd - (intEnd + 1) ELSE 0
  IN  IF IsPrefixOf(InfinityText, s) THEN Infinity
      ELSE IF intEnd = 0 /\ fracLen = 0 THEN NaN
      ELSE Num(DigitsVal(s, 1, intEnd) * Pow10(fracLen)
                 + DigitsVal(s, intEnd + 2, fracEnd),
               Pow10(fracLen))

\* the decimal digits of the natural number m
RECURSIVE NatText(_)
NatText(m) ==
  IF m < 10 THEN <<DigitChars[m + 1]>>
  ELSE NatText(m \div 10) \o <<DigitChars[(m % 10) + 1]>>

\* the digits of m written with exactly w digits (leading zeros)
RECURSIVE PadText(_, _)
PadText(m, w) ==
  IF w = 0 THEN << >> ELSE PadText(m \div 10, w - 1) \o <<DigitChars[(m % 10) + 1]>>

\* least e with d dividing 10^e (d is a divisor of a power of ten)
RECURSIVE FracDigits(_, _)
FracDigits(d, e) == IF Pow10(e) % d = 0 THEN e ELSE FracDigits(d, e + 1)

\* Number to string, for the numbers that have a finite decimal expansion
NumberText(v) ==
  IF v.k = "nan" THEN <<"N", "a", "N">>
  ELSE IF v.k = "inf" THEN InfinityText
  ELSE LET e == FracDigits(v.d, 0)
           m == (v.n * Pow10(e)) \div v.d
       IN  IF e = 0 THEN NatText(m)
           ELSE NatText(m \div Pow10(e)) \o <<".">> \o PadText(m % Pow10(e), e)

UndefinedText == <<"u", "n", "d", "e", "f", "i", "n", "e", "d">>

\* JavaScript values that reach parseFloat: undefined, a string, a number
Undefined == [t |-> "undefined"]

StringValue(s) == [t |-> "string", s |-> s]

NumberValue(v) == [t |-> "number", v |-> v]

\* ToString of a value
ToText(x) ==
  IF x.t = "undefined" THEN UndefinedText
  ELSE IF x.t = "string" THEN x.s
  ELSE NumberText(x.v)

\* parseFloat(x): the argument is converted to a string and then parsed
parseFloat(x) == ParseFloatText(ToText(x))

UpperLetters == <<"A", "B", "C", "D", "E", "F", "G", "H", "I", "J", "K", "L", "M",
                  "N", "O", "P", "Q", "R", "S", "T", "U", "V", "W", "X", "Y", "Z">>

LowerLetters == <<"a", "b", "c", "d", "e", "f", "g", "h", "i", "j", "k", "l", "m",
                  "n", "o", "p", "q", "r", "s", "t", "u", "v", "w", "x", "y", "z">>

ToLowerChar(ch) ==
  IF \E i \in 1..Len(UpperLetters) : UpperLetters[i] = ch
  THEN LowerLetters[CHOOSE i \in 1..Len(UpperLetters) : UpperLetters[i] = ch]
  ELSE ch

ToLower(s) == [i \in 1..Len(s) |-> ToLowerChar(s[i])]

\* s contains part as a substring
Contains(s, part) ==
  \E i \in 1..(Len(s) - Len(part) + 1) : SubSeq(s, i, i + Len(part) - 1) = part

ContainsIgnoreCase(s, part) == Contains(ToLower(s), ToLower(part))


(***************************************************************************)
(* The account: two campaigns with one ad group each.  The selectors       *)
(* return campaigns and ad groups in the order of these sequences.         *)
(***************************************************************************)
CampaignOrder == <<"C1", "C2">>

AdGroupOrder == <<"G1", "G2">>

CampaignIds == {CampaignOrder[i] : i \in 1..Len(CampaignOrder)}

AdGroupIds == {AdGroupOrder[i] : i \in 1..Len(AdGroupOrder)}

CampaignOf(g) == IF g = "G1" THEN "C1" ELSE "C2"

VARIABLES
  csv,                 \* rows of the mapping source, as Utilities.parseCsv returns them
  cfg,                 \* the name filters: [contains, doesNotContain]
  campaigns,           \* per campaign: name, impressions, campaign-level audiences
  adGroups,            \* per ad group: impressions, ad-group-level audiences
  campaignReport,      \* rows the platform returns for CAMPAIGN_PERFORMANCE_REPORT
  adGroupReport,       \* rows the platform returns for ADGROUP_PERFORMANCE_REPORT
  pc,                  \* position of main()
  audienceMapping,     \* main's audienceMapping
  campaignPerformance, \* main's campaignPerformance
  adGroupPerformance,  \* main's adGroupPerformance
  operations,          \* main's operations
  reportQueries,       \* report names passed to AdsApp.report so far
  allCampaigns,        \* campaigns selected by filterCampaignsBasedOnName
  campaignBranch,      \* campaigns handled by the if branch of makeAllOperations
  adGroupBranch,       \* campaigns handled by the else branch of makeAllOperations
  enumeratedAdGroups,  \* ad groups returned by the adGroups iterator
  next,                \* index of the operation applyBids handles next
  calls,               \* setBidModifier calls issued so far, in order
  bids                 \* bid modifiers the platform holds from this run

world == <<csv, cfg, campaigns, adGroups, campaignReport, adGroupReport>>

vars == <<csv, cfg, campaigns, adGroups, campaignReport, adGroupReport, pc,
          audienceMapping, campaignPerformance, adGroupPerformance, operations,
          reportQueries, allCampaigns, campaignBranch, adGroupBranch,
          enumeratedAdGroups, next, calls, bids>>

\* an object without properties
EmptyObject == [key \in {} |-> << >>]

\* object[key] = value
Put(object, key, value) ==
  [x \in DOMAIN object \cup {key} |-> IF x = key THEN value ELSE object[x]]

(***************************************************************************)
(* getInMarketAudienceMapping                                              *)
(***************************************************************************)
\* Array.prototype.indexOf, zero-based, -1 when absent
IndexOf(array, value) ==
  IF \E i \in 1..Len(array) : array[i] = value
  THEN (CHOOSE i \in 1..Len(array) :
          array[i] = value /\ \A j \in 1..(i - 1) : array[j] # value) - 1
  ELSE -1

\* array[index] with a zero-based index; the property key "undefined" stands
\* for the value undefined
Cell(array, index) ==
  IF index >= 0 /\ index < Len(array) THEN array[index + 1] ELSE "undefined"

\* variant of HeadersMissing that throws only when both columns are missing
HeadersMissingBoth(indexOfId, indexOfName) == indexOfId = -1 /\ indexOfName = -1

\* the test that throws 'The audience CSV does not have the expected headers'
HeadersMissing(indexOfId, indexOfName) == indexOfId = -1 \/ indexOfName = -1

\* variant of MappingLoop that starts one row early, at the header row
RECURSIVE MappingLoopFromHeader(_, _, _, _, _)
MappingLoopFromHeader(rows, i, indexOfId, indexOfName, mapping) ==
  IF i > Len(rows) + 1 THEN mapping
  ELSE MappingLoopFromHeader(rows, i + 1, indexOfId, indexOfName,
         Put(mapping, Cell(rows[i - 1], indexOfId), Cell(rows[i - 1], indexOfName)))

\* the loop for (let i = 1; i < csv.length; i++): rows[i] is csv[i - 1] of
\* the code, so the data rows are rows[2..Len(rows)]
RECURSIVE MappingLoop(_, _, _, _, _)
MappingLoop(rows, i, indexOfId, indexOfName, mapping) ==
  IF i > Len(rows) THEN mapping
  ELSE MappingLoop(rows, i + 1, indexOfId, indexOfName,
         Put(mapping, Cell(rows[i], indexOfId), Cell(rows[i], indexOfName)))

GetInMarketAudienceMapping ==
  /\ pc = "getInMarketAudienceMapping"
  /\ LET headers == csv[1]
         indexOfId == IndexOf(headers, "Criterion ID")
         indexOfName == IndexOf(headers, "Category")
     IN  /\ ~HeadersMissing(indexOfId, indexOfName)
         /\ audienceMapping' = MappingLoop(csv, 2, indexOfId, indexOfName, EmptyObject)
  /\ pc' = "getCampaignPerformance"
  /\ UNCHANGED <<world, campaignPerformance, adGroupPerformance, operations,
                 reportQueries, allCampaigns, campaignBranch, adGroupBranch,
                 enumeratedAdGroups, next, calls, bids>>

\* the throw of getInMarketAudienceMapping is not caught: main ends
GetInMarketAudienceMappingThrows ==
  /\ pc = "getInMarketAudienceMapping"
  /\ LET headers == csv[1]
     IN  HeadersMissing(IndexOf(headers, "Criterion ID"), IndexOf(headers, "Category"))
  /\ pc' = "thrown"
  /\ UNCHANGED <<world, audienceMapping, campaignPerformance, adGroupPerformance,
                 operations, reportQueries, allCampaigns, campaignBranch,
                 adGroupBranch, enumeratedAdGroups, next, calls, bids>>

(***************************************************************************)
(* getEntityPerformance                                                    *)
(***************************************************************************)
RECURSIVE PerformanceLoop(_, _, _)
PerformanceLoop(rows, i, performance) ==
  IF i > Len(rows) THEN performance
  ELSE PerformanceLoop(rows, i + 1,
         Put(performance, rows[i].id, rows[i].CostPerAllConversion))

getEntityPerformance(rows) == PerformanceLoop(rows, 1, EmptyObject)

GetCampaignPerformance ==
  /\ pc = "getCampaignPerformance"
  /\ reportQueries' = Append(reportQueries, "CAMPAIGN_PERFORMANCE_REPORT")
  /\ campaignPerformance' = getEntityPerformance(campaignReport)
  /\ pc' = "getAdGroupPerformance"
  /\ UNCHANGED <<world, audienceMapping, adGroupPerformance, operations,
                 allCampaigns, campaignBranch, adGroupBranch, enumeratedAdGroups,
                 next, calls, bids>>

GetAdGroupPerformance ==
  /\ pc = "getAdGroupPerformance"
  /\ reportQueries' = Append(reportQueries, "ADGROUP_PERFORMANCE_REPORT")
  /\ adGroupPerformance' = getEntityPerformance(adGroupReport)
  /\ pc' = "makeAllOperations"
  /\ UNCHANGED <<world, audienceMapping, campaignPerformance, operations,
                 allCampaigns, campaignBranch, adGroupBranch, enumeratedAdGroups,
                 next, calls, bids>>


(***************************************************************************)
(* makeAllOperations and the functions it calls                            *)
(***************************************************************************)
\* part.replace(/"/g, '\\"'): a backslash before every double quote
RECURSIVE EscapeQuotes(_)
EscapeQuotes(part) ==
  IF part = << >> THEN << >>
  ELSE (IF Head(part) = "\"" THEN <<"\\", "\"">> ELSE <<Head(part)>>)
         \o EscapeQuotes(Tail(part))

\* filterCampaignsBasedOnName: one withCondition per part; a selector keeps
\* the entities that satisfy every condition added to it
filterCampaignsBasedOnName(name, config) ==
  /\ \A i \in 1..Len(config.doesNotContain) :
       ~ContainsIgnoreCase(name, EscapeQuotes(config.doesNotContain[i]))
  /\ \A i \in 1..Len(config.contains) :
       ContainsIgnoreCase(name, EscapeQuotes(config.contains[i]))

\* variant of filterEntitiesBasedOnDateAndImpressions with >= for >
AtLeastMinimumImpressions(impressions) == impressions >= MINIMUM_IMPRESSIONS

\* filterEntitiesBasedOnDateAndImpressions: the condition
\* Impressions > MINIMUM_IMPRESSIONS over DATE_RANGE
filterEntitiesBasedOnDateAndImpressions(impressions) ==
  impressions > MINIMUM_IMPRESSIONS

\* variant of isAudienceInMarketAudience that accepts every audience
AnyAudienceIsInMarket(audience, inMarketIds) == TRUE

\* inMarketIds.indexOf(audience.getAudienceId()) > -1
isAudienceInMarketAudience(audience, inMarketIds) ==
  audience.audienceId \in inMarketIds

\* Array.prototype.filter, keeping the order
RECURSIVE SelectAudiences(_, _)
SelectAudiences(audiences, inMarketIds) ==
  IF audiences = << >> THEN << >>
  ELSE (IF /\ Head(audiences).impressions > MINIMUM_IMPRESSIONS
           /\ isAudienceInMarketAudience(Head(audiences), inMarketIds)
        THEN <<Head(audiences)>> ELSE << >>)
         \o SelectAudiences(Tail(audiences), inMarketIds)

\* getAudiencesFromEntity: the entity's audiences with
\* Impressions > MINIMUM_IMPRESSIONS over DATE_RANGE that are in-market
getAudiencesFromEntity(entityAudiences, mapping) ==
  SelectAudiences(entityAudiences, DOMAIN mapping)

\* variant of HasConversions that also accepts zero conversions
HasNoNegativeConversions(conversions) == conversions >= 0

\* the test conversions > 0 of makeOperations
HasConversions(conversions) == conversions > 0

\* variant of Modifier with the ratio upside down
InverseModifier(entityCpa, audienceCpa) == NumDiv(audienceCpa, entityCpa)

\* const modifier = entityCpa / audienceCpa
Modifier(entityCpa, audienceCpa) == NumDiv(entityCpa, audienceCpa)

\* the forEach of makeOperations; entityCpa is the parameter, which the body
\* overwrites with parseFloat(entityCpa) each time it makes an operation
RECURSIVE MakeOperationsLoop(_, _, _, _)
MakeOperationsLoop(entityCpa, audiences, i, ops) ==
  IF i > Len(audiences) THEN ops
  ELSE LET audience == audiences[i]
           conversions == audience.conversions
       IN  IF HasConversions(conversions)
           THEN LET audienceCpa == NumDiv(Num(audience.cost, 1), Num(conversions, 1))
                    parsedCpa == parseFloat(entityCpa)
                    modifier == Modifier(parsedCpa, audienceCpa)
                    operation == [audience |-> audience, modifier |-> modifier]
                IN  MakeOperationsLoop(NumberValue(parsedCpa), audiences, i + 1,
                                       Append(ops, operation))
           ELSE MakeOperationsLoop(entityCpa, audiences, i + 1, ops)

makeOperations(entityCpa, audiences) ==
  MakeOperationsLoop(entityCpa, audiences, 1, << >>)

makeOperationsFromEntity(entityAudiences, entityCpa, mapping) ==
  makeOperations(entityCpa, getAudiencesFromEntity(entityAudiences, mapping))

\* performance[id]: undefined when id is not a key
Lookup(performance, id) ==
  IF id \in DOMAIN performance THEN StringValue(performance[id]) ELSE Undefined

\* variant of campaignHasAnyCampaignLevelAudiences that counts only the
\* in-market audiences with enough impressions
campaignHasInMarketAudiences(campaign) ==
  Len(getAudiencesFromEntity(campaigns[campaign].audiences, audienceMapping)) > 0

\* campaignHasAnyCampaignLevelAudiences: totalNumEntities() of the unfiltered
\* campaign.targeting().audiences() selector
campaignHasAnyCampaignLevelAudiences(campaign) ==
  Len(campaigns[campaign].audiences) > 0

\* the selector of the campaigns: name conditions, then date and impressions
FilteredCampaigns ==
  SelectSeq(CampaignOrder,
            LAMBDA c : /\ filterCampaignsBasedOnName(campaigns[c].name, cfg)
                       /\ filterEntitiesBasedOnDateAndImpressions(campaigns[c].impressions))

\* the selector campaign.adGroups() with the date and impressions condition
FilteredAdGroups(campaign) ==
  SelectSeq(AdGroupOrder,
            LAMBDA g : /\ CampaignOf(g) = campaign
                       /\ filterEntitiesBasedOnDateAndImpressions(adGroups[g].impressions))

\* the inner while loop over the ad groups of one campaign
RECURSIVE AdGroupLoop(_, _, _)
AdGroupLoop(groups, i, ops) ==
  IF i > Len(groups) THEN ops
  ELSE AdGroupLoop(groups, i + 1,
         ops \o makeOperationsFromEntity(adGroups[groups[i]].audiences,
                                         Lookup(adGroupPerformance, groups[i]),
                                         audienceMapping))

\* the outer while loop; the result carries the operations and the record
\* of the branch taken for each campaign
RECURSIVE CampaignLoop(_, _, _)
CampaignLoop(selected, i, acc) ==
  IF i > Len(selected) THEN acc
  ELSE LET campaign == selected[i]
       IN  IF campaignHasAnyCampaignLevelAudiences(campaign)
           THEN CampaignLoop(selected, i + 1,
                  [acc EXCEPT
                     !.operations = @ \o makeOperationsFromEntity(
                                            campaigns[campaign].audiences,
                                            Lookup(campaignPerformance, campaign),
                                            audienceMapping),
                     !.campaignBranch = @ \cup {campaign}])
           ELSE LET groups == FilteredAdGroups(campaign)
                IN  CampaignLoop(selected, i + 1,
                      [acc EXCEPT
                         !.operations = AdGroupLoop(groups, 1, @),
                         !.adGroupBranch = @ \cup {campaign},
                         !.enumerated = @ \cup {groups[j] : j \in 1..Len(groups)}])

MakeAllOperations ==
  /\ pc = "makeAllOperations"
  /\ LET result == CampaignLoop(FilteredCampaigns, 1,
                     [operations |-> << >>, campaignBranch |-> {},
                      adGroupBranch |-> {}, enumerated |-> {}])
     IN  /\ operations' = result.operations
         /\ campaignBranch' = result.campaignBranch
         /\ adGroupBranch' = result.adGroupBranch
         /\ enumeratedAdGroups' = result.enumerated
  /\ allCampaigns' = {c \in CampaignIds : filterCampaignsBasedOnName(campaigns[c].name, cfg)}
  /\ pc' = "applyBids"
  /\ UNCHANGED <<world, audienceMapping, campaignPerformance, adGroupPerformance,
                 reportQueries, next, calls, bids>>

(***************************************************************************)
(* applyBids                                                               *)
(***************************************************************************)
\* the audience an operation writes to
AudienceRef(audience) == <<audience.owner, audience.audienceId>>

\* operation.audience.bidding().setBidModifier(operation.modifier) returns
SetBidModifier ==
  /\ pc = "applyBids"
  /\ next <= Len(operations)
  /\ calls' = Append(calls, operations[next])
  /\ bids' = Put(bids, AudienceRef(operations[next].audience), operations[next].modifier)
  /\ next' = next + 1
  /\ UNCHANGED <<world, pc, audienceMapping, campaignPerformance, adGroupPerformance,
                 operations, reportQueries, allCampaigns, campaignBranch,
                 adGroupBranch, enumeratedAdGroups>>

\* variant of SetBidModifierThrows in which the forEach goes on to the next
\* operation after a failed write
SetBidModifierThrowsAndContinues ==
  /\ pc = "applyBids"
  /\ next <= Len(operations)
  /\ calls' = Append(calls, operations[next])
  /\ next' = next + 1
  /\ UNCHANGED <<world, pc, audienceMapping, campaignPerformance, adGroupPerformance,
                 operations, reportQueries, allCampaigns, campaignBranch,
                 adGroupBranch, enumeratedAdGroups, bids>>

\* setBidModifier throws (the platform rejects the value, or the call fails):
\* nothing catches it, so forEach, applyBids and main end
SetBidModifierThrows ==
  /\ pc = "applyBids"
  /\ next <= Len(operations)
  /\ calls' = Append(calls, operations[next])
  /\ pc' = "writeThrown"
  /\ UNCHANGED <<world, audienceMapping, campaignPerformance, adGroupPerformance,
                 operations, reportQueries, allCampaigns, campaignBranch,
                 adGroupBranch, enumeratedAdGroups, next, bids>>

\* forEach has handled every operation: applyBids and main return
ApplyBidsReturns ==
  /\ pc = "applyBids"
  /\ next > Len(operations)
  /\ pc' = "done"
  /\ UNCHANGED <<world, audienceMapping, campaignPerformance, adGroupPerformance,
                 operations, reportQueries, allCampaigns, campaignBranch,
                 adGroupBranch, enumeratedAdGroups, next, calls, bids>>


(***************************************************************************)
(* The inputs of a run.                                                    *)
(***************************************************************************)
SeqsUpTo(S, n) == UNION {[1..m -> S] : m \in 0..n}

\* the mapping source of the end-to-end scenario
ScenarioCsv == << <<"Criterion ID", "Category">>,
                  <<"111", "Shoppers">>,
                  <<"222", "Researchers">> >>

HeaderSamples == { <<"Criterion ID", "Category">>,
                   <<"Category", "Criterion ID">>,
                   <<"Criterion ID", "Name">>,
                   <<"ID", "Category">>,
                   <<"criterion id", "category">> }

CellSamples == {"111", "222", "Shoppers"}

\* a header row and up to MaxRows data rows of two cells
CsvSamples ==
  {<<h>> \o rows : h \in HeaderSamples,
                   rows \in SeqsUpTo([1..2 -> CellSamples], MaxRows)}

SourceConfig == [contains |-> CAMPAIGN_NAME_CONTAINS,
                 doesNotContain |-> CAMPAIGN_NAME_DOES_NOT_CONTAIN]

SearchPart == <<"_", "S", "e", "a", "r", "c", "h", "_">>

BrandPart == <<"B", "r", "a", "n", "d">>

GenericPart == <<"g", "e", "n", "e", "r", "i", "c">>

ConfigSamples ==
  [contains : {<< >>, <<SearchPart>>, <<BrandPart, GenericPart>>,
               <<SearchPart, BrandPart>>},
   doesNotContain : {<< >>, <<BrandPart>>, <<BrandPart, GenericPart>>}]

BrandSearchName == <<"B", "r", "a", "n", "d", "_", "S", "e", "a", "r", "c", "h", "_", "U", "K">>

GenericSearchName == <<"G", "e", "n", "e", "r", "i", "c", "_", "s", "e", "a", "r", "c", "h", "_", "U", "S">>

BrandDisplayName == <<"b", "r", "a", "n", "d", "_", "D", "i", "s", "p", "l", "a", "y">>

ShoppingName == <<"S", "h", "o", "p", "p", "i", "n", "g">>

NameSamples == {BrandSearchName, GenericSearchName, BrandDisplayName, ShoppingName}

\* an attached audience: its audience id and its stats over DATE_RANGE
AudienceSamples ==
  { [audienceId |-> "111", impressions |-> 100, cost |-> 10, conversions |-> 5],
    [audienceId |-> "222", impressions |-> 100, cost |-> 30, conversions |-> 0],
    [audienceId |-> "333", impressions |-> 100, cost |-> 10, conversions |-> 5],
    [audienceId |-> "222", impressions |-> 50, cost |-> 8, conversions |-> 2],
    [audienceId |-> "222", impressions |-> 51, cost |-> 9, conversions |-> 3] }

\* the audience lists of one entity: an audience id is attached at most once
AudienceLists ==
  {l \in SeqsUpTo(AudienceSamples, MaxAudiences) :
     \A i, j \in 1..Len(l) : l[i].audienceId = l[j].audienceId => i = j}

Attach(owner, list) ==
  [i \in 1..Len(list) |->
     [owner |-> owner, audienceId |-> list[i].audienceId,
      impressions |-> list[i].impressions, cost |-> list[i].cost,
      conversions |-> list[i].conversions]]

\* impressions of an entity over DATE_RANGE and its row in the performance
\* report, if the report has one
CampaignStatusSamples ==
  { [impressions |-> 51, reported |-> TRUE, cpa |-> <<"2", ".", "5", "0">>],
    [impressions |-> 51, reported |-> FALSE, cpa |-> << >>],
    [impressions |-> 50, reported |-> FALSE, cpa |-> << >>] }

AdGroupStatusSamples ==
  { [impressions |-> 51, reported |-> TRUE, cpa |-> <<"0", ".", "8", "0">>],
    [impressions |-> 51, reported |-> FALSE, cpa |-> << >>],
    [impressions |-> 50, reported |-> FALSE, cpa |-> << >>] }

\* the rows of a performance report
RECURSIVE ReportRows(_, _)
ReportRows(order, status) ==
  IF order = << >> THEN << >>
  ELSE (IF status[Head(order)].reported
        THEN <<[id |-> Head(order), CostPerAllConversion |-> status[Head(order)].cpa]>>
        ELSE << >>)
         \o ReportRows(Tail(order), status)

\* audiences are attached to a campaign or to its ad groups, never to both
Placements ==
  {p \in [campaign : AudienceLists, adGroup : AudienceLists] :
     p.campaign = << >> \/ p.adGroup = << >>}

RECURSIVE AttachedCount(_, _)
AttachedCount(placement, order) ==
  IF order = << >> THEN 0
  ELSE Len(placement[Head(order)].campaign) + Len(placement[Head(order)].adGroup)
         + AttachedCount(placement, Tail(order))

AccountPlacements ==
  {placement \in [CampaignIds -> Placements] :
     AttachedCount(placement, CampaignOrder) <= MaxAudiences}

\* values of CostPerAllConversion as a report may print them
CpaSamples ==
  { <<"2", ".", "5", "0">>, <<"0", ".", "0", "0">>, <<"1", "0">>, <<".", "5">>,
    <<" ", "3", ".", "2">>, <<"1", ",", "2", "0", "0", ".", "5", "0">>,
    <<"-", "-">> }

ScenarioPlacement ==
  [c \in CampaignIds |->
     IF c = "C1"
     THEN [campaign |-> <<[audienceId |-> "111", impressions |-> 100,
                           cost |-> 10, conversions |-> 5]>>,
           adGroup |-> << >>]
     ELSE [campaign |-> << >>,
           adGroup |-> <<[audienceId |-> "333", impressions |-> 100,
                          cost |-> 10, conversions |-> 5],
                         [audienceId |-> "111", impressions |-> 100,
                          cost |-> 10, conversions |-> 5]>>]]

ScenarioCampaignStatus ==
  [c \in CampaignIds |->
     [impressions |-> 51, reported |-> TRUE, cpa |-> <<"2", ".", "5", "0">>]]

ScenarioAdGroupStatus ==
  [g \in AdGroupIds |->
     [impressions |-> 51, reported |-> TRUE, cpa |-> <<"0", ".", "8", "0">>]]

ScenarioNames == [c \in CampaignIds |-> GenericSearchName]

\* the account and the reports for one choice of names, statuses and audiences
InitWorld(names, campaignStatus, adGroupStatus, placement) ==
  /\ campaigns = [c \in CampaignIds |->
                    [name |-> names[c],
                     impressions |-> campaignStatus[c].impressions,
                     audiences |-> Attach(c, placement[c].campaign)]]
  /\ adGroups = [g \in AdGroupIds |->
                   [impressions |-> adGroupStatus[g].impressions,
                    audiences |-> Attach(g, placement[CampaignOf(g)].adGroup)]]
  /\ campaignReport = ReportRows(CampaignOrder, campaignStatus)
  /\ adGroupReport = ReportRows(AdGroupOrder, adGroupStatus)

\* main() has not started
InitProgram ==
  /\ pc = "getInMarketAudienceMapping"
  /\ audienceMapping = EmptyObject
  /\ campaignPerformance = EmptyObject
  /\ adGroupPerformance = EmptyObject
  /\ operations = << >>
  /\ reportQueries = << >>
  /\ allCampaigns = {}
  /\ campaignBranch = {}
  /\ adGroupBranch = {}
  /\ enumeratedAdGroups = {}
  /\ next = 1
  /\ calls = << >>
  /\ bids = EmptyObject

\* accounts of every shape, with the mapping and the filters of the script
InitAccounts ==
  /\ csv = ScenarioCsv
  /\ cfg = SourceConfig
  /\ \E campaignStatus \in [CampaignIds -> CampaignStatusSamples],
        adGroupStatus \in [AdGroupIds -> AdGroupStatusSamples],
        placement \in AccountPlacements :
       InitWorld(ScenarioNames, campaignStatus, adGroupStatus, placement)

\* mapping sources of every shape
InitMappingSources ==
  /\ csv \in CsvSamples
  /\ cfg = SourceConfig
  /\ InitWorld(ScenarioNames, ScenarioCampaignStatus, ScenarioAdGroupStatus,
               ScenarioPlacement)

\* campaign names and name filters of every shape
InitNameFilters ==
  /\ csv = ScenarioCsv
  /\ cfg \in ConfigSamples
  /\ \E names \in [CampaignIds -> NameSamples] :
       InitWorld(names, ScenarioCampaignStatus, ScenarioAdGroupStatus,
                 ScenarioPlacement)

\* report values of every shape
InitBaselines ==
  /\ csv = ScenarioCsv
  /\ cfg = SourceConfig
  /\ \E campaignCpa \in [CampaignIds -> CpaSamples],
        adGroupCpa \in [AdGroupIds -> CpaSamples] :
       InitWorld(ScenarioNames,
                 [c \in CampaignIds |->
                    [impressions |-> 51, reported |-> TRUE, cpa |-> campaignCpa[c]]],
                 [g \in AdGroupIds |->
                    [impressions |-> 51, reported |-> TRUE, cpa |-> adGroupCpa[g]]],
                 ScenarioPlacement)

Init ==
  /\ InitProgram
  /\ \/ InitAccounts
     \/ InitMappingSources
     \/ InitNameFilters
     \/ InitBaselines

Next ==
  \/ GetInMarketAudienceMapping
  \/ GetInMarketAudienceMappingThrows
  \/ GetCampaignPerformance
  \/ GetAdGroupPerformance
  \/ MakeAllOperations
  \/ SetBidModifier
  \/ SetBidModifierThrows
  \/ ApplyBidsReturns

Spec == Init /\ [][Next]_vars


(***************************************************************************)
(* Properties.                                                             *)
(***************************************************************************)
\* makeAllOperations has returned
MadeOperations == pc \in {"applyBids", "done", "writeThrown"}

\* the campaigns the outer loop of makeAllOperations iterates over
Surviving == {c \in allCampaigns : campaigns[c].impressions > MINIMUM_IMPRESSIONS}

\* the entities whose audiences makeAllOperations has fetched
ProcessedEntities == campaignBranch \cup enumeratedAdGroups

AudiencesOf(entity) ==
  IF entity \in CampaignIds THEN campaigns[entity].audiences
  ELSE adGroups[entity].audiences

\* the baseline of an entity, as read from its performance map
BaselineOf(entity) ==
  IF entity \in CampaignIds THEN Lookup(campaignPerformance, entity)
  ELSE Lookup(adGroupPerformance, entity)

\* audiences of processed entities that pass the impression condition, are
\* in the mapping and have conversions
EligibleAudiences ==
  {a \in UNION {{AudiencesOf(e)[i] : i \in 1..Len(AudiencesOf(e))} : e \in ProcessedEntities} :
     /\ a.impressions > MINIMUM_IMPRESSIONS
     /\ a.audienceId \in DOMAIN audienceMapping
     /\ a.conversions > 0}

\* C1: once the operations are made, every operation belongs to an entity
\* (campaign or ad group) whose id is a key of the corresponding performance
\* map; entities absent from the map contribute no operation.
C1_NoOperationWithoutBaseline ==
  MadeOperations =>
    \A i \in 1..Len(operations) :
      LET owner == operations[i].audience.owner
      IN  IF owner \in CampaignIds THEN owner \in DOMAIN campaignPerformance
          ELSE owner \in DOMAIN adGroupPerformance

\* the name rule as C2 states it: none of the exclusion parts, and at least
\* one of the inclusion parts when there are any (ignoring case)
NameMatchesAnyPart(name, config) ==
  /\ \A i \in 1..Len(config.doesNotContain) :
       ~ContainsIgnoreCase(name, config.doesNotContain[i])
  /\ \/ config.contains = << >>
     \/ \E i \in 1..Len(config.contains) :
          ContainsIgnoreCase(name, config.contains[i])

\* C2: the campaigns that pass the name filters are exactly those whose name
\* contains none of the exclusion parts and, when inclusion parts are
\* configured, at least one of them.
C2_NameFilterAnyInclusion ==
  MadeOperations =>
    allCampaigns = {c \in CampaignIds : NameMatchesAnyPart(campaigns[c].name, cfg)}

\* C3: every operation refers to an audience with conversions > 0; an
\* audience with zero conversions gets no operation, whatever its cost and
\* whatever the baseline of its entity.
C3_NoOperationWithoutConversions ==
  \A i \in 1..Len(operations) : operations[i].audience.conversions > 0

C3_Witness ==
  /\ MadeOperations
  /\ Len(operations) > 0
  /\ \E e \in ProcessedEntities : \E i \in 1..Len(AudiencesOf(e)) :
       /\ AudiencesOf(e)[i].conversions = 0
       /\ AudiencesOf(e)[i].cost > 0
       /\ AudiencesOf(e)[i].impressions > MINIMUM_IMPRESSIONS
       /\ AudiencesOf(e)[i].audienceId \in DOMAIN audienceMapping

\* C4: a campaign with at least one campaign-level audience never has its ad
\* groups enumerated and gets no operation for an ad-group-level audience;
\* every campaign the loop visits takes exactly one of the two branches.
C4_MutualExclusivity ==
  MadeOperations =>
    /\ \A c \in CampaignIds :
         Len(campaigns[c].audiences) > 0 =>
           \A g \in AdGroupIds :
             CampaignOf(g) = c =>
               /\ g \notin enumeratedAdGroups
               /\ \A i \in 1..Len(operations) : operations[i].audience.owner # g
    /\ campaignBranch \cap adGroupBranch = {}
    /\ campaignBranch \cup adGroupBranch = Surviving

C4_Witness ==
  /\ MadeOperations
  /\ \E c \in campaignBranch : \E g \in AdGroupIds :
       /\ CampaignOf(g) = c
       /\ adGroups[g].impressions > MINIMUM_IMPRESSIONS
       /\ g \notin enumeratedAdGroups
  /\ adGroupBranch # {}

\* the header row has no cell "Criterion ID" or no cell "Category"
HeaderLacksColumn ==
  \/ \A i \in 1..Len(csv[1]) : csv[1][i] # "Criterion ID"
  \/ \A i \in 1..Len(csv[1]) : csv[1][i] # "Category"

\* C5: when the header row lacks "Criterion ID" or "Category", loading the
\* mapping throws: no mapping (not even a partial one) is returned, and the
\* run ends before any report is queried, any operation is made and any bid
\* modifier is written.
C5_MissingHeaderAborts ==
  (pc # "getInMarketAudienceMapping" /\ HeaderLacksColumn) =>
    /\ pc = "thrown"
    /\ audienceMapping = EmptyObject
    /\ reportQueries = << >>
    /\ campaignPerformance = EmptyObject
    /\ adGroupPerformance = EmptyObject
    /\ operations = << >>
    /\ calls = << >>
    /\ bids = EmptyObject

C5_Witness ==
  /\ pc = "thrown"
  /\ Len(csv) > 1
  /\ \E i \in 1..Len(csv[1]) : csv[1][i] = "Criterion ID"
  /\ \A i \in 1..Len(csv[1]) : csv[1][i] # "Category"

\* C6: every operation carries modifier = entityCpa / (cost / conversions),
\* entityCpa being parseFloat of the baseline of the audience's entity,
\* unclamped and unrounded, whatever the position of the audience; every
\* eligible audience gets exactly one operation; baseline "2.50", cost 10
\* and conversions 5 give 1.25.
C6_ModifierIsRatio ==
  MadeOperations =>
    /\ \A i \in 1..Len(operations) :
         LET a == operations[i].audience
             m == operations[i].modifier
             entityCpa == parseFloat(BaselineOf(a.owner))
         IN  /\ entityCpa.k = "nan" => m = NaN
             /\ (entityCpa.k = "num" /\ a.cost > 0) =>
                  /\ m.k = "num"
                  /\ m.n * (entityCpa.d * a.cost) = m.d * (entityCpa.n * a.conversions)
             /\ (/\ BaselineOf(a.owner) = StringValue(<<"2", ".", "5", "0">>)
                 /\ a.cost = 10
                 /\ a.conversions = 5) => m = [k |-> "num", n |-> 5, d |-> 4]
    /\ \A a \in EligibleAudiences :
         Cardinality({i \in 1..Len(operations) : operations[i].audience = a}) = 1

C6_Witness ==
  /\ MadeOperations
  /\ Len(operations) = 2
  /\ operations[1].audience.owner = operations[2].audience.owner
  /\ operations[1].modifier = [k |-> "num", n |-> 5, d |-> 4]
  /\ operations[2].modifier = [k |-> "num", n |-> 5, d |-> 6]

\* C7: every operation refers to an audience whose id is a key of the loaded
\* mapping; an unmapped audience gets no operation and does not keep the
\* mapped audiences of the same entity from getting theirs.
C7_OnlyMappedAudiences ==
  /\ \A i \in 1..Len(operations) :
       operations[i].audience.audienceId \in DOMAIN audienceMapping
  /\ MadeOperations =>
       \A a \in EligibleAudiences :
         \E i \in 1..Len(operations) : operations[i].audience = a

C7_Witness ==
  /\ MadeOperations
  /\ \E e \in ProcessedEntities : \E i, j \in 1..Len(AudiencesOf(e)) :
       /\ AudiencesOf(e)[i].audienceId \notin DOMAIN audienceMapping
       /\ AudiencesOf(e)[i].conversions > 0
       /\ AudiencesOf(e)[i].impressions > MINIMUM_IMPRESSIONS
       /\ i < j
       /\ \E k \in 1..Len(operations) : operations[k].audience = AudiencesOf(e)[j]

\* one-based position of a header cell
ColumnOf(title) == CHOOSE i \in 1..Len(csv[1]) : csv[1][i] = title

\* C8: with both columns in the header row, the mapping has exactly one entry
\* per distinct Criterion ID of the data rows (none for the header row), and
\* each id maps to the category of the last data row that carries it.
C8_MappingLastWins ==
  (pc \notin {"getInMarketAudienceMapping", "thrown"}) =>
    /\ DOMAIN audienceMapping = {csv[r][ColumnOf("Criterion ID")] : r \in 2..Len(csv)}
    /\ \A r \in 2..Len(csv) :
         (\A q \in (r + 1)..Len(csv) :
            csv[q][ColumnOf("Criterion ID")] # csv[r][ColumnOf("Criterion ID")])
         => audienceMapping[csv[r][ColumnOf("Criterion ID")]] = csv[r][ColumnOf("Category")]

C8_Witness ==
  /\ pc \notin {"getInMarketAudienceMapping", "thrown"}
  /\ \E r, q \in 2..Len(csv) :
       /\ r < q
       /\ csv[r][ColumnOf("Criterion ID")] = csv[q][ColumnOf("Criterion ID")]
       /\ csv[r][ColumnOf("Category")] # csv[q][ColumnOf("Category")]
       /\ audienceMapping[csv[q][ColumnOf("Criterion ID")]] = csv[q][ColumnOf("Category")]
  /\ Cardinality(DOMAIN audienceMapping) = 2

\* the bid modifiers left by the successful calls of a sequence of operations
BidsAfter(ops) ==
  [ref \in {AudienceRef(ops[i].audience) : i \in 1..Len(ops)} |->
     ops[CHOOSE i \in 1..Len(ops) :
           /\ AudienceRef(ops[i].audience) = ref
           /\ \A j \in (i + 1)..Len(ops) : AudienceRef(ops[j].audience) # ref].modifier]

\* C9: the writes are issued one per operation, in list order, and only once
\* the list is complete; when a write fails, the earlier writes stay, the
\* failed one is not repeated and no later operation is attempted; a run
\* that ends normally has issued every write.
C9_WritesInOrderNoRollback ==
  /\ IsPrefixOf(calls, operations)
  /\ calls # << >> => MadeOperations
  /\ pc = "done" => calls = operations
  /\ pc = "writeThrown" =>
       /\ calls # << >>
       /\ bids = BidsAfter(SubSeq(calls, 1, Len(calls) - 1))
  /\ pc # "writeThrown" => bids = BidsAfter(calls)

C9_Witness ==
  /\ pc = "writeThrown"
  /\ Len(calls) = 2
  /\ DOMAIN bids = {AudienceRef(operations[1].audience)}

\* C10 as stated: a surviving campaign is handled at campaign granularity
\* exactly when one of its campaign-level audiences is in-market (in the
\* mapping) and passes the impression condition; otherwise its ad groups that
\* pass the date and impression condition are enumerated.
C10_ScopeByInMarketAudiences ==
  MadeOperations =>
    \A c \in Surviving :
      LET hasInMarket ==
            \E i \in 1..Len(campaigns[c].audiences) :
              /\ campaigns[c].audiences[i].audienceId \in DOMAIN audienceMapping
              /\ campaigns[c].audiences[i].impressions > MINIMUM_IMPRESSIONS
      IN  /\ c \in campaignBranch <=> hasInMarket
          /\ ~hasInMarket =>
               {g \in enumeratedAdGroups : CampaignOf(g) = c}
                 = {g \in AdGroupIds : /\ CampaignOf(g) = c
                                       /\ adGroups[g].impressions > MINIMUM_IMPRESSIONS}

\* C10, amended: a surviving campaign is handled at campaign granularity, with
\* the campaign baseline, exactly when it has one or more campaign-level
\* audiences of any kind (in the mapping or not, whatever their
\* impressions); otherwise exactly its ad groups that pass the date and
\* impression condition are enumerated and handled with the ad-group baseline.
C10_ScopeByAnyAudience ==
  MadeOperations =>
    /\ \A c \in Surviving :
         /\ c \in campaignBranch <=> Len(campaigns[c].audiences) > 0
         /\ c \in adGroupBranch <=> Len(campaigns[c].audiences) = 0
         /\ {g \in enumeratedAdGroups : CampaignOf(g) = c}
              = {g \in AdGroupIds : /\ CampaignOf(g) = c
                                    /\ c \in adGroupBranch
                                    /\ adGroups[g].impressions > MINIMUM_IMPRESSIONS}
    /\ \A i \in 1..Len(operations) :
         LET a == operations[i].audience
         IN  /\ a.owner \in campaignBranch \cup enumeratedAdGroups
             /\ operations[i].modifier
                  = NumDiv(parseFloat(IF a.owner \in AdGroupIds
                                      THEN Lookup(adGroupPerformance, a.owner)
                                      ELSE Lookup(campaignPerformance, a.owner)),
                           NumDiv(Num(a.cost, 1), Num(a.conversions, 1)))

C10_Witness ==
  /\ MadeOperations
  /\ \E c \in campaignBranch : \E g \in AdGroupIds :
       /\ \A i \in 1..Len(campaigns[c].audiences) :
            campaigns[c].audiences[i].audienceId \notin DOMAIN audienceMapping
       /\ CampaignOf(g) = c
       /\ adGroups[g].impressions > MINIMUM_IMPRESSIONS
       /\ g \notin enumeratedAdGroups
  /\ \E c \in adGroupBranch : \E g \in enumeratedAdGroups :
       /\ CampaignOf(g) = c
       /\ \E i \in 1..Len(operations) : operations[i].audience.owner = g

=============================================================================
